---- MODULE Spec2Model ----
(***************************************************************************)
(* Cross-chain bridge listener (src/script.py).                            *)
(*                                                                         *)
(* The model follows one process lifetime as main() drives it: the         *)
(* CrossChainBridgeListener is constructed, poll_for_events() checks the   *)
(* initialization and then runs the polling loop.  The two ledgers are the *)
(* environment: what a liveness probe finds, the height the source node    *)
(* reports, the success of an event read and the log entries it returns    *)
(* are inputs of the step that asks for them.                              *)
(* The list an event read returns is state: the for loop takes its entries *)
(* one per step, from the head.                                            *)
(*                                                                         *)
(* Spec is the program left alone but for stop() calls while it runs.      *)
(* SpecInterrupt adds KeyboardInterrupt, SpecSignals a stop() made before  *)
(* the loop; SpecSignalsFair and SpecLive add the fairness the termination *)
(* and liveness claims rest on; SpecSubmitter calls                        *)
(* submit_unlock_transaction on its own with any dictionary.               *)
(*                                                                         *)
(* Python's None is the integer -1 where the value is otherwise a          *)
(* non-negative integer (a block height, a uint256 nonce); an Optional     *)
(* dictionary is a sequence of length at most one.                         *)
(***************************************************************************)
EXTENDS Integers, Sequences, FiniteSets, TLC

\* ---------------------------------------------------------------- bounds
MaxHeight == 2      \* heights the source node reports are 0..MaxHeight
MaxLogs   == 2      \* entries returned by one event read
MaxNonce  == 2      \* nonces carried by events are 1..MaxNonce
MaxStart  == 0      \* configured start blocks are 0..MaxStart
MaxMalformed == 1   \* entries of one read that are not well-formed

\* ------------------------------------------------------------- constants
None == -1          \* Optional[...] results that are None
DefaultLag == 10    \* start_block default: latest height - 10

Heights == 0..MaxHeight
Nonces == 1..MaxNonce
StartBlocks == 0..MaxStart

required_fields == {"recipient", "amount", "nonce"}

\* the values an argument of the TokensLocked event can take
FieldValues(f) ==
    IF f = "recipient" THEN {7}
    ELSE IF f = "amount" THEN {1000}
    ELSE Nonces \cup {None}

\* the arguments mappings: every subset of the fields may be present
ArgsSet ==
    UNION { { a \in [D -> UNION {FieldValues(f) : f \in required_fields}] :
                \A f \in D : a[f] \in FieldValues(f) } : D \in SUBSET required_fields }

\* a raw log entry: its arguments mapping and whether it has a transactionHash
Events == [args : ArgsSet, tx : BOOLEAN]

\* an entry that carries a nonce, every required field and a transactionHash
WellFormed(log) ==
    /\ "nonce" \in DOMAIN log.args
    /\ log.args["nonce"] # None
    /\ \A f \in required_fields : f \in DOMAIN log.args
    /\ log.tx

\* the lists get_all_entries can return
LogLists ==
    { list \in UNION { [1..n -> Events] : n \in 0..MaxLogs } :
        Cardinality({ i \in DOMAIN list : ~WellFormed(list[i]) }) <= MaxMalformed }

VARIABLES
    pc,                     \* position of the process
    srcLive, dstLive,       \* what the last is_connected() probe of the node found
    srcWeb3, dstWeb3,       \* ChainConnector.web3 is not None
    source_bridge_contract, \* contract handle is not None
    dest_bridge_contract,
    is_running,
    last_checked_block,
    processed_nonces,
    latest_block,           \* locals of the loop body
    from_block, to_block,
    logs,                   \* the list of line 343, less the entries the for loop has taken
    processed_event,        \* result of the last process_log call
    outcome,                \* what the last iteration did at lines 321-343
    ret,                    \* history: last return value of submit_unlock_transaction
    accepted,               \* history: NormalizedEvents produced, per nonce
    submitCalls,            \* history: submit_unlock_transaction calls, per nonce
    unlockCalls,            \* history: unlock invocations performed, per nonce
    fed,                    \* history: events carrying the nonce fed to process_log
    fedGood,                \* history: of these, the complete ones
    scan_end,               \* history: toBlock of the last successful event read
    last_complete,          \* history: the last log fed carried every required field
    interrupted,            \* history: a KeyboardInterrupt was raised
    stop_requested,         \* history: when stop() was last called
    env_start,              \* startup: the START_BLOCK main() found, None when unset
    startup_height          \* startup: the height the source reported at line 298

vars == <<pc, srcLive, dstLive, srcWeb3, dstWeb3, source_bridge_contract,
          dest_bridge_contract, is_running, last_checked_block, processed_nonces,
          latest_block, from_block, to_block, logs, processed_event, outcome,
          ret, accepted, submitCalls, unlockCalls, fed, fedGood, scan_end,
          last_complete, interrupted, stop_requested, env_start, startup_height>>

envVars == <<srcLive, dstLive>>
objVars == <<srcWeb3, dstWeb3, source_bridge_contract, dest_bridge_contract>>
loopVars == <<latest_block, from_block, to_block, logs, outcome, scan_end>>

\* the number of entries the for loop has still to take
remaining == Len(logs)
eventVars == <<processed_event, processed_nonces, accepted, fed, fedGood, last_complete>>
submitVars == <<ret, submitCalls, unlockCalls>>
signalVars == <<interrupted, stop_requested>>
startVars == <<env_start, startup_height>>

\* the history counters of fed events count 0, 1, many
Bump(n) == IF n < 2 THEN n + 1 ELSE n

\* ------------------------------------------------------- ChainConnector
\* is_connected: web3 is not None and the node answers
is_connected(web3, live) == web3 /\ live

\* get_contract: None when not connected or the address is malformed
get_contract(web3, live, addressOk) == is_connected(web3, live) /\ addressOk

\* get_latest_block_number answering 0 where it should answer None
get_latest_block_number_zeroOnError(web3, live, rpcOk, h) ==
    IF ~is_connected(web3, live) THEN 0
    ELSE IF ~rpcOk THEN 0
    ELSE h

\* get_latest_block_number: None when not connected or the RPC call errors
get_latest_block_number(web3, live, rpcOk, h) ==
    IF ~is_connected(web3, live) THEN None
    ELSE IF ~rpcOk THEN None
    ELSE h

\* what one call of get_latest_block_number can return
LatestResults(web3, live) ==
    { get_latest_block_number(web3, live, rpcOk, h) : rpcOk \in BOOLEAN, h \in Heights }

\* ------------------------------------------------------- EventProcessor
\* args.get('nonce')
NonceOf(log) == IF "nonce" \in DOMAIN log.args THEN log.args["nonce"] ELSE None

\* all(field in args for field in required_fields)
HasRequiredFields(log) == \A f \in required_fields : f \in DOMAIN log.args

\* process_log returning None for every entry
process_log_rejectsAll(log, processed) == [event |-> <<>>, nonces |-> processed]

\* process_log without the replay test of line 178
process_log_noReplayCheck(log, processed) ==
    LET nonce == NonceOf(log)
        reject == [event |-> <<>>, nonces |-> processed]
    IN  IF nonce = None THEN reject
        ELSE IF ~HasRequiredFields(log) THEN reject
        ELSE IF ~log.tx THEN reject
        ELSE [event |-> << [recipient |-> log.args["recipient"],
                            amount |-> log.args["amount"],
                            source_nonce |-> nonce] >>,
              nonces |-> processed \cup {nonce}]

\* process_log without the processed_nonces.add of line 197
process_log_noAdd(log, processed) ==
    LET nonce == NonceOf(log)
        reject == [event |-> <<>>, nonces |-> processed]
    IN  IF nonce = None THEN reject
        ELSE IF nonce \in processed THEN reject
        ELSE IF ~HasRequiredFields(log) THEN reject
        ELSE IF ~log.tx THEN reject
        ELSE [event |-> << [recipient |-> log.args["recipient"],
                            amount |-> log.args["amount"],
                            source_nonce |-> nonce] >>,
              nonces |-> processed]

\* process_log without the required-fields test of line 184, reading the
\* fields with args.get
process_log_noFieldCheck(log, processed) ==
    LET nonce == NonceOf(log)
        reject == [event |-> <<>>, nonces |-> processed]
        get(f) == IF f \in DOMAIN log.args THEN log.args[f] ELSE None
    IN  IF nonce = None THEN reject
        ELSE IF nonce \in processed THEN reject
        ELSE IF ~log.tx THEN reject
        ELSE [event |-> << [recipient |-> get("recipient"),
                            amount |-> get("amount"),
                            source_nonce |-> nonce] >>,
              nonces |-> processed \cup {nonce}]

\* process_log adding the nonce as soon as the replay test has passed, before
\* the event is validated
process_log_addsBeforeValidation(log, processed) ==
    LET nonce == NonceOf(log)
        reject == [event |-> <<>>, nonces |-> processed]
        consumed == [event |-> <<>>, nonces |-> processed \cup {nonce}]
    IN  IF nonce = None THEN reject
        ELSE IF nonce \in processed THEN reject
        ELSE IF ~HasRequiredFields(log) THEN consumed
        ELSE IF ~log.tx THEN consumed
        ELSE [event |-> << [recipient |-> log.args["recipient"],
                            amount |-> log.args["amount"],
                            source_nonce |-> nonce] >>,
              nonces |-> processed \cup {nonce}]

\* process_log assigning a fresh set at line 197 where it should add to the set
process_log_replacesSet(log, processed) ==
    LET nonce == NonceOf(log)
        reject == [event |-> <<>>, nonces |-> processed]
    IN  IF nonce = None THEN reject
        ELSE IF nonce \in processed THEN reject
        ELSE IF ~HasRequiredFields(log) THEN reject
        ELSE IF ~log.tx THEN reject
        ELSE [event |-> << [recipient |-> log.args["recipient"],
                            amount |-> log.args["amount"],
                            source_nonce |-> nonce] >>,
              nonces |-> {nonce}]

\* process_log: the returned Optional event and the new processed_nonces.
\* log.get('transactionHash').hex() raises on a missing hash; the except
\* clause turns that into None, before the nonce is added.
process_log(log, processed) ==
    LET nonce == NonceOf(log)
        reject == [event |-> <<>>, nonces |-> processed]
    IN  IF nonce = None THEN reject
        ELSE IF nonce \in processed THEN reject
        ELSE IF ~HasRequiredFields(log) THEN reject
        ELSE IF ~log.tx THEN reject
        ELSE [event |-> << [recipient |-> log.args["recipient"],
                            amount |-> log.args["amount"],
                            source_nonce |-> nonce] >>,
              nonces |-> processed \cup {nonce}]

\* --------------------------------------------------- TransactionSubmitter
\* submit_unlock_transaction without the liveness test of line 231
submit_unlock_transaction_noLivenessCheck(event_data, web3, live, invokeOk) ==
    IF ~({"recipient", "amount", "source_nonce"} \subseteq DOMAIN event_data)
    THEN [ret |-> FALSE, unlocked |-> FALSE]
    ELSE IF ~invokeOk THEN [ret |-> FALSE, unlocked |-> FALSE]
    ELSE [ret |-> TRUE, unlocked |-> TRUE]

\* submit_unlock_transaction reading the fields with event_data.get, so that
\* a missing field raises no KeyError
submit_unlock_transaction_getFields(event_data, web3, live, invokeOk) ==
    IF ~is_connected(web3, live) THEN [ret |-> FALSE, unlocked |-> FALSE]
    ELSE IF ~invokeOk THEN [ret |-> FALSE, unlocked |-> FALSE]
    ELSE [ret |-> TRUE, unlocked |-> TRUE]

\* submit_unlock_transaction: the return value and whether the (simulated)
\* unlockTokens invocation was performed.  A missing field raises KeyError
\* (line 266), an error of the invocation any other Exception (line 270);
\* both handlers return False.
submit_unlock_transaction(event_data, web3, live, invokeOk) ==
    IF ~is_connected(web3, live) THEN [ret |-> FALSE, unlocked |-> FALSE]
    ELSE IF ~({"recipient", "amount", "source_nonce"} \subseteq DOMAIN event_data)
         THEN [ret |-> FALSE, unlocked |-> FALSE]
    ELSE IF ~invokeOk THEN [ret |-> FALSE, unlocked |-> FALSE]
    ELSE [ret |-> TRUE, unlocked |-> TRUE]

\* the dictionaries submit_unlock_transaction can be handed: every subset of
\* the three keys may be present
EventDataSet ==
    UNION { { e \in [D -> {7, 1000} \cup Nonces] :
                /\ "recipient" \in D => e["recipient"] = 7
                /\ "amount" \in D => e["amount"] = 1000
                /\ "source_nonce" \in D => e["source_nonce"] \in Nonces } :
            D \in SUBSET {"recipient", "amount", "source_nonce"} }

\* ----------------------------------------------- CrossChainBridgeListener
\* check_initialization without the test of the contract handles
check_initialization_ignoresContracts(sWeb3, sLive, dWeb3, dLive, sContract, dContract) ==
    IF ~is_connected(sWeb3, sLive) \/ ~is_connected(dWeb3, dLive) THEN FALSE
    ELSE TRUE

\* check_initialization
check_initialization(sWeb3, sLive, dWeb3, dLive, sContract, dContract) ==
    IF ~is_connected(sWeb3, sLive) \/ ~is_connected(dWeb3, dLive) THEN FALSE
    ELSE IF ~sContract \/ ~dContract THEN FALSE
    ELSE TRUE

\* the idle test written as an equality
NothingNew_onlyEqual(cursor, latest) == cursor = latest

\* the idle test that always finds nothing new
NothingNew_always(cursor, latest) == TRUE

\* the idle test written with > where the code has >=
NothingNew_strict(cursor, latest) == cursor > latest

\* self.last_checked_block >= latest_block
NothingNew(cursor, latest) == cursor >= latest

\* the range starting at the cursor itself
FromBlock_offByOne(cursor) == cursor

\* from_block = self.last_checked_block + 1
FromBlock(cursor) == cursor + 1

\* the iteration body advancing the cursor although the event read failed
PollStep_advanceOnError(cursor, latest, readOk) ==
    IF latest = None
    THEN [outcome |-> "height_unavailable", read |-> FALSE,
          from |-> 0, to |-> 0, cursor |-> cursor, next |-> "while"]
    ELSE IF NothingNew(cursor, latest)
    THEN [outcome |-> "idle", read |-> FALSE,
          from |-> 0, to |-> 0, cursor |-> cursor, next |-> "while"]
    ELSE IF ~readOk
    THEN [outcome |-> "read_error", read |-> TRUE,
          from |-> FromBlock(cursor), to |-> latest, cursor |-> latest, next |-> "while"]
    ELSE [outcome |-> "scanning", read |-> TRUE,
          from |-> FromBlock(cursor), to |-> latest, cursor |-> cursor, next |-> "events"]

\* the iteration body letting the error of a failed event read escape the loop
PollStep_errorEscapes(cursor, latest, readOk) ==
    IF latest = None
    THEN [outcome |-> "height_unavailable", read |-> FALSE,
          from |-> 0, to |-> 0, cursor |-> cursor, next |-> "while"]
    ELSE IF NothingNew(cursor, latest)
    THEN [outcome |-> "idle", read |-> FALSE,
          from |-> 0, to |-> 0, cursor |-> cursor, next |-> "while"]
    ELSE IF ~readOk
    THEN [outcome |-> "read_error", read |-> TRUE,
          from |-> FromBlock(cursor), to |-> latest, cursor |-> cursor, next |-> "crashed"]
    ELSE [outcome |-> "scanning", read |-> TRUE,
          from |-> FromBlock(cursor), to |-> latest, cursor |-> cursor, next |-> "events"]

\* the body of one iteration up to the event read (lines 321-343):
\* what happened, the range of the read if one was issued, the cursor and
\* where the loop continues
PollStep(cursor, latest, readOk) ==
    IF latest = None
    THEN [outcome |-> "height_unavailable", read |-> FALSE,
          from |-> 0, to |-> 0, cursor |-> cursor, next |-> "while"]
    ELSE IF NothingNew(cursor, latest)
    THEN [outcome |-> "idle", read |-> FALSE,
          from |-> 0, to |-> 0, cursor |-> cursor, next |-> "while"]
    ELSE IF ~readOk
    THEN [outcome |-> "read_error", read |-> TRUE,
          from |-> FromBlock(cursor), to |-> latest, cursor |-> cursor, next |-> "while"]
    ELSE [outcome |-> "scanning", read |-> TRUE,
          from |-> FromBlock(cursor), to |-> latest, cursor |-> cursor, next |-> "events"]

\* self.last_checked_block = to_block
AdvanceCursor(cursor, to) == to

\* the for loop going on to the next entry without submitting an accepted event
AfterProcessLog_neverSubmits(event) == "events"

\* if processed_event: submit it before the for loop takes the next entry
AfterProcessLog(event) == IF event # <<>> THEN "submit" ELSE "events"

\* main(): 'start_block': os.getenv('START_BLOCK', '0')
main_start_block(env) == IF env = None THEN 0 ELSE env

\* ------------------------------------------------------------------ Init
Init ==
    /\ pc = "start"
    /\ srcLive = FALSE
    /\ dstLive = FALSE
    /\ srcWeb3 = FALSE
    /\ dstWeb3 = FALSE
    /\ source_bridge_contract = FALSE
    /\ dest_bridge_contract = FALSE
    /\ is_running = FALSE
    /\ last_checked_block = 0
    /\ processed_nonces = {}
    /\ latest_block = None
    /\ from_block = 0
    /\ to_block = None
    /\ logs = <<>>
    /\ processed_event = <<>>
    /\ outcome = "none"
    /\ ret = "none"
    /\ accepted = [k \in Nonces |-> 0]
    /\ submitCalls = [k \in Nonces |-> 0]
    /\ unlockCalls = [k \in Nonces |-> 0]
    /\ fed = [k \in Nonces |-> 0]
    /\ fedGood = [k \in Nonces |-> 0]
    /\ scan_end = None
    /\ last_complete = FALSE
    /\ interrupted = FALSE
    /\ stop_requested = "no"
    /\ env_start = None
    /\ startup_height = None

\* --------------------------------------------------------------- actions
\* main() building the configuration from the environment, and
\* CrossChainBridgeListener.__init__.  Each probe of a node may find it in
\* a different state: s1/d1 at connect(), s2/d2 at get_contract(), s3 at the
\* height query of line 298.  TransactionSubmitter.__init__ reads
\* self.contract.address, which raises on a None contract; line 298
\* evaluates the default eagerly, which raises on a None height.
Construct ==
    /\ pc = "start"
    /\ \E s1, s2, s3, d1, d2, srcAddrOk, dstAddrOk, rpcOk \in BOOLEAN,
          h \in Heights, env \in StartBlocks \cup {None} :
        LET start == main_start_block(env)
            sContract == get_contract(s1, s2, srcAddrOk)
            dContract == get_contract(d1, d2, dstAddrOk)
            latest == get_latest_block_number(s1, s3, rpcOk, h)
        IN  /\ srcWeb3' = s1
            /\ dstWeb3' = d1
            /\ source_bridge_contract' = sContract
            /\ dest_bridge_contract' = dContract
            /\ dstLive' = d2
            /\ env_start' = env
            /\ IF ~dContract
               THEN /\ pc' = "crashed"
                    /\ srcLive' = s2
                    /\ UNCHANGED <<last_checked_block, startup_height>>
               ELSE /\ srcLive' = s3
                    /\ startup_height' = latest
                    /\ IF latest = None
                       THEN /\ pc' = "crashed"
                            /\ UNCHANGED last_checked_block
                       ELSE /\ pc' = "constructed"
                            /\ last_checked_block' =
                                 IF start # None THEN start ELSE latest - DefaultLag
    /\ UNCHANGED <<is_running, loopVars, eventVars, submitVars, signalVars>>

\* poll_for_events, lines 313-317.  What main() and the constructor saw at
\* startup is kept until here.
CheckInit ==
    /\ pc = "constructed"
    /\ env_start' = None
    /\ startup_height' = None
    /\ \E s, d \in BOOLEAN :
        /\ srcLive' = s
        /\ dstLive' = d
        /\ IF check_initialization(srcWeb3, s, dstWeb3, d,
                                   source_bridge_contract, dest_bridge_contract)
           THEN /\ is_running' = TRUE
                /\ pc' = "while"
           ELSE /\ pc' = "aborted"
                /\ UNCHANGED is_running
    /\ UNCHANGED <<objVars, last_checked_block, loopVars, eventVars, submitVars,
                   signalVars>>

\* a loop that never tests the flag
While_ignoresFlag ==
    /\ pc = "while"
    /\ pc' = "query"
    /\ UNCHANGED <<envVars, objVars, is_running, last_checked_block, loopVars,
                   eventVars, submitVars, signalVars, startVars>>

\* while self.is_running
While ==
    /\ pc = "while"
    /\ pc' = IF is_running THEN "query" ELSE "stopped"
    /\ UNCHANGED <<envVars, objVars, is_running, last_checked_block, loopVars,
                   eventVars, submitVars, signalVars, startVars>>

\* lines 321-343: height query, the two early continues, the event read
Query ==
    /\ pc = "query"
    /\ \E s \in BOOLEAN : \E latest \in LatestResults(srcWeb3, s), readOk \in BOOLEAN :
        LET r == PollStep(last_checked_block, latest, readOk)
        IN  /\ srcLive' = s
            /\ latest_block' = latest
            /\ outcome' = r.outcome
            /\ last_checked_block' = r.cursor
            /\ pc' = r.next
            /\ IF r.read
               THEN from_block' = r.from /\ to_block' = r.to
               ELSE UNCHANGED <<from_block, to_block>>
            /\ IF r.next = "events"
               THEN /\ logs' \in LogLists
                    /\ scan_end' = r.to
               ELSE UNCHANGED <<logs, scan_end>>
    /\ UNCHANGED <<dstLive, objVars, is_running, eventVars, submitVars,
                   signalVars, startVars>>

\* for log in logs, taking the last entry first
NextLog_lastFirst(list) == list[Len(list)]

\* for log in logs: the entry the for statement takes next
NextLog(list) == Head(list)

\* for log in logs: processed_event = self.event_processor.process_log(log)
ProcessLog ==
    /\ pc = "events"
    /\ logs # <<>>
    /\ LET log == NextLog(logs)
           r == process_log(log, processed_nonces)
           k == NonceOf(log)
       IN  /\ processed_event' = r.event
           /\ processed_nonces' = r.nonces
           /\ logs' = Tail(logs)
           /\ pc' = AfterProcessLog(r.event)
           /\ accepted' = IF r.event # <<>>
                          THEN [accepted EXCEPT ![r.event[1].source_nonce] = @ + 1]
                          ELSE accepted
           /\ fed' = IF k \in Nonces
                     THEN [fed EXCEPT ![k] = Bump(@)] ELSE fed
           /\ fedGood' = IF k \in Nonces /\ HasRequiredFields(log) /\ log.tx
                         THEN [fedGood EXCEPT ![k] = Bump(@)] ELSE fedGood
           /\ last_complete' = HasRequiredFields(log)
    /\ UNCHANGED <<envVars, objVars, is_running, last_checked_block, latest_block,
                   from_block, to_block, outcome, scan_end, submitVars,
                   signalVars, startVars>>

\* if processed_event: self.tx_submitter.submit_unlock_transaction(processed_event)
Submit ==
    /\ pc = "submit"
    /\ \E d, invokeOk \in BOOLEAN :
       LET e == processed_event[1]
           r == submit_unlock_transaction(e, dstWeb3, d, invokeOk)
       IN  /\ dstLive' = d
           /\ ret' = IF r.ret THEN "True" ELSE "False"
           /\ submitCalls' = [submitCalls EXCEPT ![e.source_nonce] = @ + 1]
           /\ unlockCalls' = IF r.unlocked
                             THEN [unlockCalls EXCEPT ![e.source_nonce] = @ + 1]
                             ELSE unlockCalls
    /\ pc' = "events"
    /\ UNCHANGED <<srcLive, objVars, is_running, last_checked_block, loopVars,
                   eventVars, signalVars, startVars>>

\* self.last_checked_block = to_block, after the for loop
Advance ==
    /\ pc = "events"
    /\ logs = <<>>
    /\ last_checked_block' = AdvanceCursor(last_checked_block, to_block)
    /\ pc' = "while"
    /\ UNCHANGED <<envVars, objVars, is_running, loopVars, eventVars, submitVars,
                   signalVars, startVars>>

\* stop() ending the iteration in progress as well
Stop_abandonsIteration ==
    /\ pc \in {"while", "query", "events", "submit"}
    /\ is_running' = FALSE
    /\ stop_requested' = "running"
    /\ pc' = "while"
    /\ UNCHANGED <<envVars, objVars, last_checked_block, loopVars, eventVars,
                   submitVars, interrupted, startVars>>

\* stop() called from outside once line 316 has set is_running
Stop ==
    /\ pc \in {"while", "query", "events", "submit"}
    /\ is_running' = FALSE
    /\ stop_requested' = "running"
    /\ UNCHANGED <<pc, envVars, objVars, last_checked_block, loopVars, eventVars,
                   submitVars, interrupted, startVars>>

Next ==
    \/ Construct
    \/ CheckInit
    \/ While
    \/ Query
    \/ ProcessLog
    \/ Submit
    \/ Advance
    \/ Stop

Spec == Init /\ [][Next]_vars

\* ------------------------------------------------------------ fairness
\* one step of the polling loop
LoopStep == While \/ Query \/ ProcessLog \/ Submit \/ Advance

\* an iteration whose height query and event read succeed and whose range
\* reaches block b
QueryCovers(b) == Query /\ outcome' = "scanning" /\ to_block' >= b

\* the program is never stopped
NextLive ==
    \/ Construct
    \/ CheckInit
    \/ LoopStep

\* The loop is single-threaded and only sleeps between iterations, so it
\* keeps taking steps; the source node eventually answers a height query
\* and the event read that follows it.
SpecLive ==
    /\ Init
    /\ [][NextLive]_vars
    /\ WF_vars(LoopStep)
    /\ \A b \in 1..MaxHeight : SF_vars(QueryCovers(b))

\* ------------------------------------------- TransactionSubmitter alone
\* a TransactionSubmitter on a connector that did or did not connect
InitSubmitter ==
    /\ pc = "submitter"
    /\ srcLive = FALSE
    /\ dstLive = FALSE
    /\ srcWeb3 = FALSE
    /\ dstWeb3 \in BOOLEAN
    /\ source_bridge_contract = FALSE
    /\ dest_bridge_contract = TRUE
    /\ is_running = FALSE
    /\ last_checked_block = 0
    /\ processed_nonces = {}
    /\ latest_block = None
    /\ from_block = 0
    /\ to_block = None
    /\ logs = <<>>
    /\ processed_event = <<>>
    /\ outcome = "none"
    /\ ret = "none"
    /\ accepted = [k \in Nonces |-> 0]
    /\ submitCalls = [k \in Nonces |-> 0]
    /\ unlockCalls = [k \in Nonces |-> 0]
    /\ fed = [k \in Nonces |-> 0]
    /\ fedGood = [k \in Nonces |-> 0]
    /\ scan_end = None
    /\ last_complete = FALSE
    /\ interrupted = FALSE
    /\ stop_requested = "no"
    /\ env_start = None
    /\ startup_height = None

\* A call submit_unlock_transaction(e) that a KeyboardInterrupt ends: it is
\* a BaseException, which the except clauses of lines 266-272 let through,
\* so the call returns nothing.  The interrupt comes during the liveness
\* probe of line 231, after the probe has answered, or during the
\* time.sleep(2) of line 262, when the unlock has been performed.
InterruptedCall(e) ==
    LET k == IF "source_nonce" \in DOMAIN e THEN e["source_nonce"] ELSE None
    IN  /\ submitCalls' = IF k # None
                          THEN [submitCalls EXCEPT ![k] = Bump(@)]
                          ELSE submitCalls
        /\ \/ UNCHANGED <<dstLive, unlockCalls>>
           \/ /\ dstLive' \in BOOLEAN
              /\ UNCHANGED unlockCalls
           \/ /\ submit_unlock_transaction(e, dstWeb3, TRUE, TRUE).unlocked
              /\ dstLive' = TRUE
              /\ unlockCalls' = [unlockCalls EXCEPT ![k] = Bump(@)]
        /\ UNCHANGED ret

\* one call of submit_unlock_transaction with any dictionary; processed_event
\* holds the argument of the call
SubmitCall ==
    /\ pc = "submitter"
    /\ \E e \in EventDataSet, d, invokeOk \in BOOLEAN :
       LET r == submit_unlock_transaction(e, dstWeb3, d, invokeOk)
           k == IF "source_nonce" \in DOMAIN e THEN e["source_nonce"] ELSE None
       IN  /\ processed_event' = <<e>>
           /\ dstLive' = d
           /\ ret' = IF r.ret THEN "True" ELSE "False"
           /\ submitCalls' = IF k # None
                             THEN [submitCalls EXCEPT ![k] = Bump(@)]
                             ELSE submitCalls
           /\ unlockCalls' = IF r.unlocked
                             THEN [unlockCalls EXCEPT ![k] = Bump(@)]
                             ELSE unlockCalls
    /\ UNCHANGED <<pc, srcLive, objVars, is_running, last_checked_block, loopVars,
                   processed_nonces, accepted, fed, fedGood, last_complete,
                   signalVars, startVars>>

\* one call that a KeyboardInterrupt ends; the exception reaches the caller,
\* which may call again: the submitter keeps no trace of the interrupt
SubmitInterrupted ==
    /\ pc = "submitter"
    /\ interrupted' = TRUE
    /\ \E e \in EventDataSet :
        /\ processed_event' = <<e>>
        /\ InterruptedCall(e)
    /\ UNCHANGED <<pc, srcLive, objVars, is_running, last_checked_block, loopVars,
                   processed_nonces, accepted, fed, fedGood, last_complete,
                   stop_requested, startVars>>

NextSubmitter ==
    \/ SubmitCall
    \/ SubmitInterrupted

SpecSubmitter == InitSubmitter /\ [][NextSubmitter]_vars

\* ------------------------------------------------------------- signals
\* stop() called before line 316 has run: before poll_for_events is called
\* or between its initialization check and the loop
StopBeforeLoop ==
    /\ pc = "constructed"
    /\ is_running' = FALSE
    /\ stop_requested' = "before_loop"
    /\ UNCHANGED <<pc, envVars, objVars, last_checked_block, loopVars, eventVars,
                   submitVars, interrupted, startVars>>

\* between two iterations: the sleeps of lines 324, 329 and 358 are inside
\* the try block; the sleep of line 364 and the loop test are not
SleepsInsideTry ==
    /\ outcome \in {"height_unavailable", "idle", "scanning"}
    /\ ~interrupted

\* The interrupt is caught at line 360, which calls stop().  stop() logs
\* (line 368) before it assigns (line 369): a second interrupt during that
\* logging is raised inside the handler and leaves poll_for_events with
\* is_running as it was.
InterruptCaught ==
    /\ stop_requested' = "running"
    /\ \/ /\ is_running' = FALSE
          /\ pc' = "while"
       \/ /\ pc' = "killed"
          /\ UNCHANGED is_running

\* lines 321-343 cut short: before the probe of line 143; after the probe
\* has answered and before line 321 assigns (in the logging of line 144, or
\* during the query of line 147), when latest_block still holds the height
\* of the iteration before; after line 321 has assigned latest_block; or
\* after lines 333-334 have assigned the range, during the event read
InterruptedQuery ==
    \/ /\ srcLive' \in BOOLEAN
       /\ UNCHANGED loopVars
    \/ \E s \in BOOLEAN : \E latest \in LatestResults(srcWeb3, s) :
        LET r == PollStep(last_checked_block, latest, TRUE)
        IN  /\ srcLive' = s
            /\ latest_block' = latest
            /\ \/ UNCHANGED <<from_block, to_block>>
               \/ /\ r.read
                  /\ from_block' = r.from
                  /\ to_block' = r.to
            /\ UNCHANGED <<logs, outcome, scan_end>>

\* the for loop cut short: between two entries, or inside process_log,
\* which then returns nothing: before line 197, or after it, when the nonce
\* of an event that passed validation is already in the set
InterruptedProcessLog ==
    \/ UNCHANGED <<loopVars, eventVars>>
    \/ /\ logs # <<>>
       /\ LET log == NextLog(logs)
              r == process_log(log, processed_nonces)
              k == NonceOf(log)
          IN  /\ logs' = Tail(logs)
              /\ processed_nonces' \in {processed_nonces, r.nonces}
              /\ fed' = IF k \in Nonces
                        THEN [fed EXCEPT ![k] = Bump(@)] ELSE fed
              /\ fedGood' = IF k \in Nonces /\ HasRequiredFields(log) /\ log.tx
                            THEN [fedGood EXCEPT ![k] = Bump(@)] ELSE fedGood
              /\ last_complete' = HasRequiredFields(log)
       /\ UNCHANGED <<latest_block, from_block, to_block, outcome, scan_end,
                      processed_event, accepted>>

\* main() and __init__ cut short at stage `at`: 0 before the configuration
\* is read, 1 in the source connector's connect(), 2 in the destination's,
\* 3 and 4 in the two get_contract calls, 5 at line 294, 6 at line 295 or
\* before the height query of line 298 has answered (reached with a
\* destination contract only), 7 after it has answered, 8 at line 299
\* (reached with a height only).  What the lines before had assigned stays
\* assigned; connect() assigns web3 before it probes the node and clears it
\* after a failed probe.
InterruptedConstruct ==
    \E s1, s2, s3, d1, d2, srcAddrOk, dstAddrOk, rpcOk, sl, dl, w \in BOOLEAN,
       h \in Heights, env \in StartBlocks \cup {None}, at \in 0..8 :
        LET start == main_start_block(env)
            sContract == get_contract(s1, s2, srcAddrOk)
            dContract == get_contract(d1, d2, dstAddrOk)
            latest == get_latest_block_number(s1, s3, rpcOk, h)
        IN  /\ at >= 6 => dContract
            /\ at >= 8 => latest # None
            /\ env_start' = IF at >= 1 THEN env ELSE env_start
            /\ srcWeb3' = IF at >= 2 THEN s1 ELSE IF at = 1 THEN w ELSE srcWeb3
            /\ dstWeb3' = IF at >= 3 THEN d1 ELSE IF at = 2 THEN w ELSE dstWeb3
            /\ source_bridge_contract' =
                   IF at >= 4 THEN sContract ELSE source_bridge_contract
            /\ dest_bridge_contract' =
                   IF at >= 5 THEN dContract ELSE dest_bridge_contract
            /\ srcLive' = CASE at = 0 -> srcLive
                             [] at = 1 -> w /\ sl
                             [] at = 2 -> s1
                             [] at = 3 -> sl
                             [] at \in {4, 5, 6} -> s2
                             [] OTHER -> s3
            /\ dstLive' = CASE at \in {0, 1} -> dstLive
                             [] at = 2 -> w /\ dl
                             [] at = 3 -> d1
                             [] at = 4 -> dl
                             [] OTHER -> d2
            /\ startup_height' = IF at >= 7 THEN latest ELSE startup_height
            /\ last_checked_block' =
                   IF at = 8
                   THEN IF start # None THEN start ELSE latest - DefaultLag
                   ELSE last_checked_block

\* lines 313-315 cut short: before the probes of line 303, after the source
\* probe, or after the destination probe, which is made only when the
\* source answered True
InterruptedCheckInit ==
    \/ UNCHANGED envVars
    \/ /\ srcLive' \in BOOLEAN
       /\ UNCHANGED dstLive
    \/ /\ is_connected(srcWeb3, TRUE)
       /\ srcLive' = TRUE
       /\ dstLive' \in BOOLEAN

\* A KeyboardInterrupt raised while the program runs.  It is a
\* BaseException, so the except Exception clauses of process_log and
\* submit_unlock_transaction let it through.  Inside the try block it is
\* caught at line 360, which calls stop() and leaves the rest of the
\* iteration undone; what the interrupted call had done by then stays done.
\* Elsewhere (before the loop, at the loop test, in the handler of line 362)
\* the interrupt leaves poll_for_events or main().
KeyboardInterrupt ==
    /\ pc \in {"start", "constructed", "while", "query", "events", "submit"}
    /\ interrupted' = TRUE
    /\ \/ /\ pc = "start"
          /\ pc' = "killed"
          /\ InterruptedConstruct
          /\ UNCHANGED <<is_running, stop_requested, loopVars, eventVars,
                         submitVars>>
       \/ /\ pc = "constructed"
          /\ pc' = "killed"
          /\ InterruptedCheckInit
          /\ UNCHANGED <<is_running, stop_requested, objVars, last_checked_block,
                         startVars, loopVars, eventVars, submitVars>>
       \/ /\ pc = "while"
          /\ SleepsInsideTry
          /\ InterruptCaught
          /\ UNCHANGED <<envVars, objVars, last_checked_block, startVars,
                         loopVars, eventVars, submitVars>>
       \/ /\ pc = "while"
          /\ pc' = "killed"
          /\ UNCHANGED <<is_running, stop_requested, envVars, objVars,
                         last_checked_block, startVars, loopVars, eventVars,
                         submitVars>>
       \/ /\ pc = "query"
          /\ InterruptCaught
          /\ InterruptedQuery
          /\ UNCHANGED <<dstLive, objVars, last_checked_block, startVars,
                         eventVars, submitVars>>
       \/ /\ pc = "events"
          /\ InterruptCaught
          /\ InterruptedProcessLog
          /\ UNCHANGED <<envVars, objVars, last_checked_block, startVars,
                         submitVars>>
       \/ /\ pc = "submit"
          /\ InterruptCaught
          /\ \/ UNCHANGED <<dstLive, submitVars>>
             \/ InterruptedCall(processed_event[1])
          /\ UNCHANGED <<srcLive, objVars, last_checked_block, startVars,
                         loopVars, eventVars>>

\* the program with KeyboardInterrupt
NextInterrupt ==
    \/ Next
    \/ KeyboardInterrupt

SpecInterrupt == Init /\ [][NextInterrupt]_vars

\* the same with a stop() made before the loop
NextSignals ==
    \/ NextInterrupt
    \/ StopBeforeLoop

SpecSignals == Init /\ [][NextSignals]_vars

\* the same with a loop that keeps taking steps: between two iterations it
\* only sleeps, for a bounded time
SpecSignalsFair == SpecSignals /\ WF_vars(LoopStep)

TypeOK ==
    /\ pc \in {"start", "crashed", "constructed", "aborted", "while", "query",
               "events", "submit", "stopped", "killed", "submitter"}
    /\ is_running \in BOOLEAN
    /\ processed_nonces \subseteq Nonces
    /\ logs \in LogLists
    /\ Len(processed_event) <= 1

\* ------------------------------------------------------------ properties
Running == {"while", "query", "events", "submit"}

\* the NormalizedEvent of nonce k is produced and its submission is still to come
Pending(k) == pc = "submit" /\ processed_event[1].source_nonce = k

\* C1 as stated: once two RawEvents carrying the same nonce k have been fed
\* to process_log, exactly one NormalizedEvent of k has been produced and
\* exactly one submit_unlock_transaction call for k has been made.
C1_AnyTwoEvents ==
    \A k \in Nonces :
        fed[k] >= 2 /\ ~Pending(k) => accepted[k] = 1 /\ submitCalls[k] = 1

\* C1 amended: once two RawEvents carrying the same nonce k have been fed
\* to process_log, at least one of them complete (recipient, amount, nonce
\* and a transaction hash), exactly one NormalizedEvent of k has been
\* produced and exactly one submit_unlock_transaction call for k has been
\* made; every other event carrying k was dropped.
C1_IdempotentRejection ==
    \A k \in Nonces :
        fed[k] >= 2 /\ fedGood[k] >= 1 /\ ~Pending(k)
            => accepted[k] = 1 /\ submitCalls[k] = 1

C1_Witness ==
    \E k \in Nonces :
        /\ fed[k] >= 2 /\ fedGood[k] >= 2
        /\ pc = "events"
        /\ accepted[k] = 1 /\ submitCalls[k] = 1

\* C2: at-most-once delivery: in every reachable state, for every nonce k,
\* at most one submit_unlock_transaction call has been made with source
\* nonce k, also after failed iterations and repeated reads.
C2_AtMostOnce == \A k \in Nonces : submitCalls[k] <= 1

C2_Witness ==
    \E k \in Nonces :
        /\ submitCalls[k] = 1 /\ fedGood[k] >= 2
        /\ outcome = "read_error"

\* C3: last_checked_block never decreases once it is set, and the step that
\* ends an iteration which scanned [a,b] sets it to b.
C3_RangeMonotonicity ==
    [][ /\ pc # "start" => last_checked_block' >= last_checked_block
        /\ pc = "events" /\ pc' = "while"
              => last_checked_block' = to_block /\ to_block = scan_end ]_vars

\* a scan completed, and a later iteration saw a lower height
C3_Witness ==
    /\ outcome = "idle"
    /\ latest_block # None
    /\ latest_block < last_checked_block
    /\ scan_end = last_checked_block

\* C4 as stated: every event read the loop issues, successful or not,
\* starts at the end of the previously issued read + 1.
C4_IssuedReadsPartition ==
    [][ pc = "query" /\ pc' # "query" /\ outcome' \in {"read_error", "scanning"}
        /\ to_block # None
            => from_block' = to_block + 1 ]_vars

\* C4 amended: the ranges of the event reads that succeeded, in order, are
\* non-empty and each starts at the end of the previous successful read + 1:
\* no block is covered by two successful reads and none is skipped.
C4_NoDoubleScanNoGap ==
    [][ pc = "query" /\ pc' = "events"
            => /\ from_block' <= to_block'
               /\ scan_end' = to_block'
               /\ scan_end # None => from_block' = scan_end + 1 ]_vars

\* a second range is being scanned
C4_Witness ==
    /\ pc = "events"
    /\ scan_end # None
    /\ from_block > MaxStart + 1
    /\ from_block <= to_block

\* C5: a NormalizedEvent is only ever produced from a log whose arguments
\* carry recipient, amount and nonce, and submit_unlock_transaction is only
\* ever called on such an event.
C5_ValidationCompleteness ==
    /\ [](processed_event # <<>> => last_complete)
    /\ [](pc = "submit" => processed_event # <<>>)
    /\ [][submitCalls' # submitCalls => pc = "submit" /\ last_complete]_vars

\* an incomplete event carrying a nonce was fed and dropped while another
\* nonce was already processed
C5_Witness ==
    /\ pc = "events"
    /\ ~last_complete
    /\ processed_event = <<>>
    /\ processed_nonces # {}
    /\ \E k \in Nonces : fed[k] >= 1 /\ accepted[k] = 0 /\ submitCalls[k] = 0

\* C6: a submission made while the destination is not live returns False
\* without the unlock invocation and leaves the nonce in processed_nonces;
\* the step that ends the iteration sets last_checked_block to to_block
\* whatever the submissions returned; a nonce whose submission failed is
\* never submitted again.
C6_DestinationNotLive ==
    /\ [][ pc = "submit" /\ pc' # "submit" /\ ~is_connected(dstWeb3, dstLive')
             => /\ ret' = "False"
                /\ unlockCalls' = unlockCalls
                /\ processed_event[1].source_nonce \in processed_nonces'
                /\ pc' = "events" ]_vars
    /\ [][ pc = "events" /\ remaining = 0 /\ pc' # "events"
             => pc' = "while" /\ last_checked_block' = to_block ]_vars
    /\ [][ \A k \in Nonces :
               submitCalls[k] = 1 /\ unlockCalls[k] = 0
                 => submitCalls'[k] = 1 /\ unlockCalls'[k] = 0
                    /\ k \in processed_nonces' ]_vars

\* the submission of k failed and the cursor moved past its range
C6_Witness ==
    \E k \in Nonces :
        /\ submitCalls[k] = 1 /\ unlockCalls[k] = 0
        /\ ret = "False"
        /\ k \in processed_nonces
        /\ pc = "query"
        /\ last_checked_block = scan_end

\* C7: an iteration whose height query returns None (source not connected
\* or RPC error) changes neither last_checked_block nor processed_nonces,
\* issues no event read and no submission, and goes back to the loop test,
\* from where a running loop queries again.
C7_HeightUnavailable ==
    [][ /\ pc = "query" /\ pc' # "query"
          /\ (latest_block' = None \/ ~is_connected(srcWeb3, srcLive'))
            => /\ outcome' = "height_unavailable"
               /\ last_checked_block' = last_checked_block
               /\ processed_nonces' = processed_nonces
               /\ UNCHANGED <<from_block, to_block, scan_end, remaining>>
               /\ UNCHANGED <<submitCalls, unlockCalls, accepted>>
               /\ pc' = "while"
               /\ is_running' = is_running
        /\ pc = "while" /\ is_running /\ outcome = "height_unavailable" /\ pc' # pc
            => pc' = "query" ]_vars

\* after a completed scan a height query failed and the loop is about to retry
C7_Witness ==
    /\ pc = "query"
    /\ is_running
    /\ outcome = "height_unavailable"
    /\ scan_end # None
    /\ processed_nonces # {}

\* C8: an iteration whose event read fails leaves last_checked_block at the
\* value of the last successful advance, goes back to the loop test with
\* is_running unchanged, and the next read the loop issues starts at the
\* same from_block = last_checked_block + 1.
C8_IterationErrorRecovery ==
    [][ /\ pc = "query" /\ pc' # "query" /\ outcome' = "read_error"
            => /\ last_checked_block' = last_checked_block
               /\ scan_end # None => last_checked_block' = scan_end
               /\ processed_nonces' = processed_nonces
               /\ pc' = "while"
               /\ is_running' = is_running
        /\ pc = "while" /\ is_running /\ outcome = "read_error" /\ pc' # pc
            => pc' = "query"
        /\ pc = "query" /\ pc' # "query" /\ outcome = "read_error"
              /\ outcome' \in {"read_error", "scanning"}
            => /\ from_block' = from_block
               /\ from_block' = last_checked_block + 1 ]_vars

\* after a completed scan an event read failed and the loop is about to retry
C8_Witness ==
    /\ pc = "query"
    /\ is_running
    /\ outcome = "read_error"
    /\ scan_end # None
    /\ last_checked_block = scan_end
    /\ from_block = scan_end + 1

\* a connection was not live at connect() or a contract handle is None
InitFailed ==
    ~srcWeb3 \/ ~dstWeb3 \/ ~source_bridge_contract \/ ~dest_bridge_contract

\* the loop has made no height query, no event read and no submission
NoLoopActivity ==
    /\ outcome = "none"
    /\ latest_block = None
    /\ to_block = None
    /\ \A k \in Nonces : accepted[k] = 0 /\ submitCalls[k] = 0

\* C9: when a connection was not live at construction, a contract handle
\* was not constructed, or a connection is not live when the initialization
\* is checked, is_running is never set and the loop never runs; the failed
\* start is final.
C9_InitFailureTerminal ==
    /\ [](pc # "start" /\ InitFailed
            => ~is_running /\ pc \in {"crashed", "constructed", "aborted"}
               /\ NoLoopActivity)
    /\ [][ pc = "constructed" /\ pc' # pc /\ (~srcLive' \/ ~dstLive')
             => pc' = "aborted" /\ ~is_running' ]_vars
    /\ [](pc \in {"aborted", "crashed"} => ~is_running /\ NoLoopActivity)
    /\ [][ (pc \in {"aborted", "crashed"}) => pc' = pc ]_vars

\* both nodes answer at the check, the source contract handle is missing
C9_Witness ==
    /\ pc = "aborted"
    /\ srcLive /\ dstLive
    /\ ~source_bridge_contract
    /\ dest_bridge_contract

\* C10: a running loop stays in the loop whatever an event, a height query,
\* an event read or a submission does; it leaves only from the loop test and
\* only when stop() has cleared is_running; in every state of the loop a
\* next step of the loop is possible.
C10_OnlyStopEndsRunning ==
    /\ [][ (pc \in Running)
             => \/ pc' \in Running
                \/ pc = "while" /\ pc' = "stopped" /\ ~is_running ]_vars
    /\ [](pc \in Running => ENABLED LoopStep)
    /\ [](pc \in Running /\ is_running /\ pc # "query" => ENABLED (LoopStep /\ pc' # "stopped"))

\* a dropped event, a failed submission and a failed read have happened and
\* the loop is about to query again
C10_Witness ==
    /\ pc = "query"
    /\ is_running
    /\ outcome = "read_error"
    /\ ret = "False"
    /\ \E k \in Nonces : fed[k] >= 1 /\ fedGood[k] = 0
\* C11 as stated: a stop signal never interrupts an iteration in progress.
\* Once an iteration has read the events of [from_block, to_block], it is
\* left only by the end of the for loop: every entry has been handed to
\* process_log and last_checked_block becomes to_block.
C11_NeverInterrupted ==
    [][ (pc \in {"events", "submit"}) =>
            \/ pc' \in {"events", "submit"}
            \/ pc' = "while" /\ remaining = 0 /\ last_checked_block' = to_block ]_vars

\* C11 amended: a stop() call never interrupts an iteration in progress: it
\* changes is_running only, and an iteration that has read its events and
\* meets no KeyboardInterrupt is left only by the end of the for loop, with
\* every entry handed to process_log and last_checked_block = to_block.  A
\* KeyboardInterrupt raised within the iteration ends it at once: the call
\* it hits returns nothing, the entries left are not handed over and the
\* cursor stays; the handler's stop() clears is_running, unless a second
\* interrupt cuts stop() short and leaves poll_for_events.
C11_StopNeverInterrupts ==
    [][ /\ (pc \in {"events", "submit"} /\ interrupted' = interrupted) =>
            \/ pc' \in {"events", "submit"}
            \/ pc' = "while" /\ remaining = 0 /\ last_checked_block' = to_block
        /\ (stop_requested' # stop_requested /\ interrupted' = interrupted) =>
            /\ pc' = pc
            /\ last_checked_block' = last_checked_block
            /\ remaining' = remaining
        /\ (pc \in {"events", "submit"} /\ interrupted' # interrupted) =>
            /\ pc' \in {"while", "killed"}
            /\ pc' = "while" => ~is_running'
            /\ pc' = "killed" => is_running' = is_running
            /\ last_checked_block' = last_checked_block
            /\ remaining' \in {remaining, remaining - 1}
            /\ <<processed_event, accepted, ret>>' = <<processed_event, accepted, ret>> ]_vars

\* stop() has been called in the middle of a range, entries are still to be
\* handed over and an accepted event waits for its submission
C11_Witness ==
    /\ pc = "submit"
    /\ stop_requested = "running"
    /\ ~interrupted
    /\ ~is_running
    /\ remaining > 0

\* C12: when the constructor has returned, the initial last_checked_block is
\* the height the source reported at startup minus 10 if no starting block
\* was configured, and the configured starting block otherwise.
C12_DefaultStartingBlock ==
    pc = "constructed" =>
        IF env_start = None
        THEN last_checked_block = startup_height - DefaultLag
        ELSE last_checked_block = env_start

\* a process_log call is made by this step
ProcessLogCalled == pc = "events" /\ remaining' = remaining - 1

\* a KeyboardInterrupt has taken the submission of the event accepted last
LostToInterrupt(k) ==
    /\ interrupted
    /\ processed_event # <<>>
    /\ processed_event[1].source_nonce = k

\* C13: within one scanned range the entries are validated one at a time in
\* exactly the order of the list the read returned: every process_log call
\* is made on the head of what is left of the list and takes it off, and
\* nothing else changes the list but a new read.  The nonce of an accepted
\* event is in processed_nonces before its submission starts; while a
\* submission is due no other entry is validated, and the submission made is
\* the one of the event accepted last, so that submissions follow the order
\* of acceptance: at any time every accepted event has been submitted, but
\* for the pending one (or the one whose submission a KeyboardInterrupt has
\* taken).
C13_Ordering ==
    [][ /\ (logs' # logs) =>
               \/ pc = "query" /\ pc' = "events" /\ interrupted' = interrupted
               \/ ProcessLogCalled /\ logs' = Tail(logs)
        /\ ProcessLogCalled =>
               LET log == Head(logs)
                   r == process_log(log, processed_nonces)
               IN  /\ logs' = Tail(logs)
                   /\ last_complete' = HasRequiredFields(log)
                   /\ \A k \in Nonces :
                          fed'[k] = IF NonceOf(log) = k THEN Bump(fed[k]) ELSE fed[k]
                   /\ interrupted' = interrupted =>
                          /\ processed_event' = r.event
                          /\ processed_nonces' = r.nonces
        /\ (pc = "submit" /\ interrupted' = interrupted) =>
               /\ pc' \in {"submit", "events"}
               /\ logs' = logs
               /\ <<fed, accepted, processed_nonces>>' = <<fed, accepted, processed_nonces>>
               /\ \A k \in Nonces :
                    submitCalls'[k] =
                        submitCalls[k] + (IF Pending(k) /\ pc' = "events" THEN 1 ELSE 0)
        /\ (pc # "submit") => submitCalls' = submitCalls
        /\ (accepted' # accepted) => ProcessLogCalled /\ pc' = "submit"
        /\ \A k \in Nonces :
               /\ Pending(k)' => k \in processed_nonces'
               /\ \/ submitCalls'[k] = accepted'[k] - (IF Pending(k)' THEN 1 ELSE 0)
                  \/ LostToInterrupt(k)' /\ submitCalls'[k] = accepted'[k] - 1 ]_vars

\* the first read returned two events with different nonces: both have been
\* accepted in the order of the list, the first has been submitted, the
\* second waits for its submission
C13_Witness ==
    \E k1, k2 \in Nonces :
        /\ k1 # k2
        /\ from_block = 1
        /\ logs = <<>>
        /\ fed[k1] = 1 /\ fed[k2] = 1
        /\ submitCalls[k1] = 1
        /\ Pending(k2) /\ submitCalls[k2] = 0

\* C14: processed_nonces only grows across every step of a run, and the
\* nonce of an accepted event enters it in the very step that validates the
\* event; no later step removes it, and a submission leaves the set alone,
\* whether it returns True or False or a KeyboardInterrupt cuts it short.
C14_SeenKeySetMonotone ==
    [][ /\ processed_nonces \subseteq processed_nonces'
        /\ \A k \in Nonces :
               accepted'[k] # accepted[k] =>
                   k \notin processed_nonces /\ k \in processed_nonces'
        /\ (pc = "submit" \/ submitCalls' # submitCalls) =>
               processed_nonces' = processed_nonces ]_vars

\* the submission of an accepted event has returned False, a second nonce
\* has been accepted as well, and both nonces are in the set
C14_Witness ==
    \E k1, k2 \in Nonces :
        /\ k1 # k2
        /\ submitCalls[k1] = 1 /\ unlockCalls[k1] = 0
        /\ accepted[k2] = 1
        /\ {k1, k2} \subseteq processed_nonces

\* C15 as stated: a call of submit_unlock_transaction always returns a
\* boolean to its caller and no exception reaches the caller.  It returns
\* True only if the destination is live at the call and the dictionary
\* carries recipient, amount and source_nonce, and then the invocation has
\* been performed; if the destination is not live or a field is missing it
\* returns False, and whenever it returns False no invocation is reported.
C15_SubmitResult ==
    [][ LET e == processed_event'[1]
            live == is_connected(dstWeb3, dstLive')
            complete == {"recipient", "amount", "source_nonce"} \subseteq DOMAIN e
        IN  /\ pc' = pc
            /\ interrupted' = interrupted
            /\ ret' \in {"True", "False"}
            /\ ret' = "True" =>
                   /\ live /\ complete
                   /\ unlockCalls'[e["source_nonce"]] =
                          Bump(unlockCalls[e["source_nonce"]])
            /\ (~live \/ ~complete) => ret' = "False"
            /\ ret' = "False" => unlockCalls' = unlockCalls ]_vars

\* C15 amended: a call that no KeyboardInterrupt ends returns a boolean as
\* stated above, and no Exception reaches the caller.  A KeyboardInterrupt
\* raised during the call does reach the caller: nothing is returned, and
\* the invocation may have been performed already, but only for a live
\* destination and a complete dictionary.  Until a first call is
\* interrupted every call returns; the first interrupted call raises; after
\* it a call does one or the other.
C15_SubmitResultUnlessInterrupted ==
    [][ LET e == processed_event'[1]
            live == is_connected(dstWeb3, dstLive')
            complete == {"recipient", "amount", "source_nonce"} \subseteq DOMAIN e
            Returned ==
                /\ ret' \in {"True", "False"}
                /\ ret' = "True" =>
                       /\ live /\ complete
                       /\ unlockCalls'[e["source_nonce"]] =
                              Bump(unlockCalls[e["source_nonce"]])
                /\ (~live \/ ~complete) => ret' = "False"
                /\ ret' = "False" => unlockCalls' = unlockCalls
            Raised ==
                /\ ret' = ret
                /\ unlockCalls' # unlockCalls => live /\ complete
        IN  /\ pc' = pc
            /\ CASE ~interrupted' -> Returned
                 [] ~interrupted -> Raised
                 [] OTHER -> Returned \/ Raised ]_vars

\* a KeyboardInterrupt has ended a call during the wait of line 262: the
\* unlock has been performed and nothing has been returned
C15_Witness ==
    /\ pc = "submitter"
    /\ interrupted
    /\ ret = "none"
    /\ processed_event # <<>>
    /\ "source_nonce" \in DOMAIN processed_event[1]
    /\ submitCalls[processed_event[1].source_nonce] = 1
    /\ unlockCalls[processed_event[1].source_nonce] = 1

\* the step runs lines 321-343 of one iteration
QueryDone == pc = "query" /\ pc' \in {"while", "events"} /\ interrupted' = interrupted

\* C16: every event read the loop issues has from_block = last_checked_block
\* + 1 <= to_block = the height just reported; an iteration that finds
\* last_checked_block >= that height (a height that went down included)
\* issues no read and leaves the cursor and processed_nonces as they are.
C16_ReadRange ==
    [][ QueryDone =>
        /\ outcome' \in {"scanning", "read_error"} =>
               /\ latest_block' # None
               /\ from_block' = last_checked_block + 1
               /\ from_block' <= to_block'
               /\ to_block' = latest_block'
        /\ (latest_block' # None /\ last_checked_block >= latest_block') =>
               /\ outcome' = "idle"
               /\ <<from_block, to_block, scan_end>>' = <<from_block, to_block, scan_end>>
               /\ last_checked_block' = last_checked_block
               /\ processed_nonces' = processed_nonces ]_vars

\* after a scan that accepted an event the source reports a height below
\* the cursor and the iteration stays idle
C16_Witness ==
    /\ outcome = "idle"
    /\ latest_block # None
    /\ latest_block < last_checked_block
    /\ to_block = last_checked_block
    /\ processed_nonces # {}

\* C17: when a connection was not live at construction or a contract handle
\* could not be built, the constructor still returns (no exception), and
\* the failure is left for check_initialization to report: poll_for_events
\* then returns without running the loop.
C17_InitFailureReported ==
    (pc # "start" /\ InitFailed) =>
        /\ pc # "crashed"
        /\ pc \in {"constructed", "aborted"}

\* the list being processed still holds a well-formed event with nonce k
InRange(k) == \E i \in DOMAIN logs : WellFormed(logs[i]) /\ NonceOf(logs[i]) = k

\* C18: while the program is not stopped and the source keeps answering,
\* every block b at or below a height the loop has observed is eventually
\* behind the cursor, which only a completed scan of a range containing b
\* moves there; every entry the read returned is handed to process_log; a
\* well-formed event the read returned leads to a submission attempt for its
\* nonce, exactly one: the event is accepted when it is handed over unless
\* its nonce was accepted before, and every event accepted gets its
\* submission attempt.
C18_RelayLiveness ==
    /\ \A b \in 1..MaxHeight :
           (latest_block # None /\ latest_block >= b) ~> (last_checked_block >= b)
    /\ (pc = "events" /\ remaining > 0) ~> (pc = "while" /\ last_checked_block = scan_end)
    /\ \A k \in Nonces :
           (InRange(k) \/ Pending(k)) ~> (submitCalls[k] = 1 /\ ~Pending(k))
    /\ [](\A k \in Nonces : fedGood[k] >= 1 => accepted[k] = 1)
    /\ [](\A k \in Nonces : submitCalls[k] <= 1)

\* the loop has observed height MaxHeight, has scanned up to it and has
\* submitted an event of the last range
C18_Witness ==
    /\ pc = "while"
    /\ latest_block = MaxHeight
    /\ last_checked_block = MaxHeight
    /\ from_block > 1
    /\ \E k \in Nonces : submitCalls[k] = 1 /\ processed_event # <<>>
                          /\ processed_event[1].source_nonce = k

\* C19: a process_log call that returns nothing leaves processed_nonces
\* unchanged; processed_nonces is at any time the set of the nonces of the
\* NormalizedEvents returned so far; and a complete event whose nonce is not
\* in the set is accepted, whatever incomplete events carrying the same
\* nonce were fed before.
C19_RejectionKeepsReplayState ==
    [][ /\ (ProcessLogCalled /\ processed_event' = <<>>) =>
               processed_nonces' = processed_nonces
        /\ processed_nonces' = {k \in Nonces : accepted'[k] >= 1}
        /\ \A k \in Nonces :
               (fedGood'[k] # fedGood[k] /\ k \notin processed_nonces) =>
                   /\ accepted'[k] = accepted[k] + 1
                   /\ Pending(k)' ]_vars

\* an incomplete event carrying nonce k was rejected, and the complete event
\* with the same nonce fed after it has just been accepted
C19_Witness ==
    \E k \in Nonces :
        /\ Pending(k)
        /\ fed[k] = 2
        /\ fedGood[k] = 1
        /\ accepted[k] = 1

\* C20 as stated: a stop() request made at any point after construction is
\* never lost: from the request on is_running stays False and no new
\* iteration starts.
C20_StopNeverLost ==
    [][ (stop_requested # "no") =>
            /\ ~is_running'
            /\ ~(pc = "while" /\ pc' = "query") ]_vars

\* C20 amended: a stop() request made once line 316 has run is never lost:
\* from the request on is_running stays False, no new iteration starts, and
\* the loop eventually exits (or is left by a KeyboardInterrupt).  The one
\* stop() that does not clear is_running is the one a KeyboardInterrupt
\* cuts short before line 369, and that interrupt leaves poll_for_events.
\* A request made earlier is overwritten by line 316.
C20_StopWhileRunning ==
    /\ [][ (stop_requested = "running") =>
               /\ ~is_running'
               /\ ~(pc = "while" /\ pc' = "query") ]_vars
    /\ [][ (stop_requested' = "running") =>
               \/ ~is_running'
               \/ pc' = "killed" /\ interrupted' ]_vars
    /\ [][ (stop_requested = "before_loop" /\ pc = "constructed" /\ pc' = "while")
               => is_running' ]_vars
    /\ (stop_requested = "running") ~> (pc \in {"stopped", "killed"})

\* stop() was called in the middle of a scan, no KeyboardInterrupt was
\* raised, and the loop has exited after the scan
C20_Witness ==
    /\ pc = "stopped"
    /\ stop_requested = "running"
    /\ ~interrupted
    /\ outcome = "scanning"
    /\ last_checked_block = scan_end

====
